---- MODULE Spec2Model ----
(***************************************************************************)
(* Model of happy-dom's CSS declaration value parsers:                     *)
(*   CSSStyleDeclarationValueParser          (value shape recognizers)     *)
(*   CSSStyleDeclarationPropertyValueParser  (property and shorthand       *)
(*                                            parsers)                     *)
(* A JavaScript string is a sequence of one-character strings, so that     *)
(* toLowerCase, trim, split and the regular expressions are computed       *)
(* character by character, as the engine computes them.                    *)
(***************************************************************************)
EXTENDS Integers, Sequences, FiniteSets, TLC

VARIABLES op, value, important, outcome

vars == <<op, value, important, outcome>>

(***************************************************************************)
(* JavaScript values.                                                      *)
(***************************************************************************)
Null == [t |-> "null"]

Undefined == [t |-> "undefined"]

Str(s) == [t |-> "string", s |-> s]

Obj(m) == [t |-> "object", m |-> m]

\* ToBoolean: null, undefined and '' are falsy; objects and other strings are truthy.
Truthy(x) == \/ x.t = "object"
             \/ (x.t = "string" /\ x.s # <<>>)

\* a || b
OrElse(a, b) == IF Truthy(a) THEN a ELSE b

(***************************************************************************)
(* Characters and String.prototype operations.                             *)
(***************************************************************************)
UpperCaseLetters == <<"A","B","C","D","E","F","G","H","I","J","K","L","M","N","O","P","Q","R","S","T","U","V","W","X","Y","Z">>

LowerCaseLetters == <<"a","b","c","d","e","f","g","h","i","j","k","l","m","n","o","p","q","r","s","t","u","v","w","x","y","z">>

Range(f) == {f[i] : i \in DOMAIN f}

Digits == Range(<<"0","1","2","3","4","5","6","7","8","9">>)

HexDigits == Range(<<"0","1","2","3","4","5","6","7","8","9","a","b","c","d","e","f","A","B","C","D","E","F">>)

\* The regular expression class \s and the characters trim() strips.
WhiteSpace == {" ", "\t", "\n", "\r", "\f"}

LineTerminators == {"\n", "\r"}

ToLowerChar(c) ==
  IF \E i \in DOMAIN UpperCaseLetters : UpperCaseLetters[i] = c
    THEN LowerCaseLetters[CHOOSE i \in DOMAIN UpperCaseLetters : UpperCaseLetters[i] = c]
    ELSE c

ToUpperChar(c) ==
  IF \E i \in DOMAIN LowerCaseLetters : LowerCaseLetters[i] = c
    THEN UpperCaseLetters[CHOOSE i \in DOMAIN LowerCaseLetters : LowerCaseLetters[i] = c]
    ELSE c

toLowerCase(s) == [i \in 1..Len(s) |-> ToLowerChar(s[i])]

toUpperCase(s) == [i \in 1..Len(s) |-> ToUpperChar(s[i])]

\* s.substring(from, to) with 0-based JavaScript indexes within 0..s.length; the
\* two are swapped when from > to.
substring(s, from, to) ==
  IF from > to THEN SubSeq(s, to + 1, from) ELSE SubSeq(s, from + 1, to)

trim(s) ==
  LET keep == {i \in 1..Len(s) : s[i] \notin WhiteSpace}
      Min(S) == CHOOSE m \in S : \A n \in S : m <= n
      Max(S) == CHOOSE m \in S : \A n \in S : m >= n
  IN IF keep = {} THEN <<>> ELSE SubSeq(s, Min(keep), Max(keep))

(***************************************************************************)
(* Regular expressions: a pattern is a tree of nodes, and Ends(re, s, i)   *)
(* is the set of positions at which a match of re that starts at position  *)
(* i of s (1-based) can end (the position after its last character).       *)
(***************************************************************************)
Chr(cs) == [k |-> "chr", cs |-> cs]

NotChr(cs) == [k |-> "notchr", cs |-> cs]

\* .  (any character but a line terminator)
AnyChr == NotChr(LineTerminators)

\* ^
Bol == [k |-> "bol"]

\* $
Eol == [k |-> "eol"]

Cat(rs) == [k |-> "cat", rs |-> rs]

Alt(rs) == [k |-> "alt", rs |-> rs]

\* r{min,max}
Rep(r, min, max) == [k |-> "rep", r |-> r, min |-> min, max |-> max, bounded |-> TRUE]

\* r{min,}
RepAtLeast(r, min) == [k |-> "rep", r |-> r, min |-> min, max |-> min, bounded |-> FALSE]

Star(r) == RepAtLeast(r, 0)

Plus(r) == RepAtLeast(r, 1)

Opt(r) == Rep(r, 0, 1)

Lit(s) == Cat([i \in 1..Len(s) |-> Chr({s[i]})])

\* A literal under the i flag.
LitI(s) == Cat([i \in 1..Len(s) |-> Chr({ToLowerChar(s[i]), ToUpperChar(s[i])})])

RECURSIVE Ends(_, _, _), CatEnds(_, _, _, _), RepEnds(_, _, _, _)

Ends(re, s, i) ==
  CASE re.k = "chr" -> IF i <= Len(s) /\ s[i] \in re.cs THEN {i + 1} ELSE {}
    [] re.k = "notchr" -> IF i <= Len(s) /\ s[i] \notin re.cs THEN {i + 1} ELSE {}
    [] re.k = "bol" -> IF i = 1 THEN {i} ELSE {}
    [] re.k = "eol" -> IF i = Len(s) + 1 THEN {i} ELSE {}
    [] re.k = "cat" -> CatEnds(re.rs, s, {i}, 1)
    [] re.k = "alt" -> UNION {Ends(re.rs[j], s, i) : j \in DOMAIN re.rs}
    [] re.k = "rep" -> RepEnds(re, s, {i}, 0)

CatEnds(rs, s, from, j) ==
  IF j > Len(rs) \/ from = {} THEN from
  ELSE CatEnds(rs, s, UNION {Ends(rs[j], s, i) : i \in from}, j + 1)

\* from: where n repetitions can end.  Every repeated pattern of this program
\* consumes at least one character, so the positions grow and the recursion ends.
RepEnds(re, s, from, n) ==
  IF from = {} THEN {}
  ELSE (IF n >= re.min THEN from ELSE {}) \cup
       (IF re.bounded /\ n = re.max THEN {}
        ELSE RepEnds(re, s, UNION {Ends(re.r, s, i) : i \in from}, n + 1))

\* RegExp.prototype.test: the pattern matches somewhere in s.
RegExpTest(re, s) == \E start \in 1..(Len(s) + 1) : Ends(re, s, start) # {}

\* Where the separator's match at (1-based) position q ends, 0 when it does not
\* match there.  The separators of this program ( +, \s+, \s*,\s* ) are greedy
\* runs, whose first match in the engine's order is the longest one.
SplitMatch(sep, s, q) ==
  LET es == Ends(sep, s, q)
  IN IF es = {} THEN 0 ELSE CHOOSE e \in es : \A f \in es : e >= f

RECURSIVE SplitFrom(_, _, _, _)

\* The loop of String.prototype.split(separator): p is the start of the current
\* piece and q the position tried, both 1-based.
SplitFrom(sep, s, p, q) ==
  IF q > Len(s) THEN <<SubSeq(s, p, Len(s))>>
  ELSE LET e == SplitMatch(sep, s, q)
       IN IF e = 0 \/ e = p THEN SplitFrom(sep, s, p, q + 1)
          ELSE <<SubSeq(s, p, q - 1)>> \o SplitFrom(sep, s, e, e)

\* s.split(separator) for a separator that does not match the empty string.
Split(sep, s) == IF s = <<>> THEN <<(<<>>)>> ELSE SplitFrom(sep, s, 1, 1)

\* parts[i] with a 0-based JavaScript index: undefined past the end.
At(parts, i) == IF i + 1 <= Len(parts) THEN Str(parts[i + 1]) ELSE Undefined

\* Mutant of Includes: arr.indexOf(s) > 0, which misses the first element.
Includes_IndexOfPositive(arr, s) == \E i \in DOMAIN arr : i > 1 /\ arr[i] = s

\* arr.includes(s)
Includes(arr, s) == \E i \in DOMAIN arr : arr[i] = s

(***************************************************************************)
(* CSSStyleDeclarationValueParser                                          *)
(***************************************************************************)
HexGroup == Rep(Chr(HexDigits), 3, 4)

\* (-?\d+|-?\d*.\d+)
HslNumber ==
  Alt(<<Cat(<<Opt(Chr({"-"})), Plus(Chr(Digits))>>),
        Cat(<<Opt(Chr({"-"})), Star(Chr(Digits)), AnyChr, Plus(Chr(Digits))>>)>>)

COLOR_REGEXP ==
  Alt(<<Cat(<<Bol, Chr({"#"}), Rep(HexGroup, 1, 2), Eol>>),
        Cat(<<Bol, Lit(<<"r","g","b","(">>), Star(NotChr({")"})), Chr({")"}), Eol>>),
        Cat(<<Bol, Lit(<<"r","g","b","a","(">>), Star(NotChr({")"})), Chr({")"}), Eol>>),
        Cat(<<Bol, Lit(<<"h","s","l">>), Opt(Chr({"a"})), Chr({"("}),
              Star(Chr(WhiteSpace)), HslNumber, Star(Chr(WhiteSpace)), Chr({","}),
              Star(Chr(WhiteSpace)), HslNumber, Chr({"%"}), Star(Chr(WhiteSpace)), Chr({","}),
              Star(Chr(WhiteSpace)), HslNumber, Chr({"%"}), Star(Chr(WhiteSpace)),
              Opt(Cat(<<Chr({","}), Star(Chr(WhiteSpace)), HslNumber, Star(Chr(WhiteSpace))>>)),
              Chr({")"})>>)>>)

LengthUnits ==
  <<<<"i","n">>, <<"c","m">>, <<"e","m">>, <<"m","m">>, <<"p","t">>, <<"p","c">>, <<"p","x">>, <<"e","x">>, <<"r","e","m">>, <<"v","h">>, <<"v","w">>, <<"c","h">>>>

\* [-+]?[0-9]*\.?[0-9]+
SignedNumber ==
  Cat(<<Opt(Chr({"-", "+"})), Star(Chr(Digits)), Opt(Chr({"."})), Plus(Chr(Digits))>>)

LENGTH_REGEXP ==
  Cat(<<Bol,
        Alt(<<Chr({"0"}),
              Cat(<<SignedNumber, Alt([i \in DOMAIN LengthUnits |-> Lit(LengthUnits[i])])>>)>>),
        Eol>>)

PERCENTAGE_REGEXP == Cat(<<Bol, SignedNumber, Chr({"%"}), Eol>>)

URL_REGEXP ==
  Cat(<<Bol, Lit(<<"u","r","l","(">>), Star(Chr(WhiteSpace)), Star(NotChr({")"})),
        Star(Chr(WhiteSpace)), Chr({")"}), Eol>>)

getLength(v) ==
  IF v = <<"0">> THEN Str(<<"0","p","x">>)
  ELSE IF RegExpTest(LENGTH_REGEXP, v) THEN Str(v)
  ELSE Null

\* Mutant of getPercentage: the zero case copied from getLength with its unit.
getPercentage_LengthUnit(v) ==
  IF v = <<"0">> THEN Str(<<"0","p","x">>)
  ELSE IF RegExpTest(PERCENTAGE_REGEXP, v) THEN Str(v)
  ELSE Null

getPercentage(v) ==
  IF v = <<"0">> THEN Str(<<"0","%">>)
  ELSE IF RegExpTest(PERCENTAGE_REGEXP, v) THEN Str(v)
  ELSE Null

getMeasurement(v) ==
  LET lowerValue == toLowerCase(v)
  IN IF \/ lowerValue = <<"i","n","h","e","r","i","t">>
        \/ lowerValue = <<"i","n","i","t","i","a","l">>
        \/ lowerValue = <<"r","e","v","e","r","t">>
        \/ lowerValue = <<"u","n","s","e","t">>
       THEN Str(lowerValue)
       ELSE OrElse(getLength(v), getPercentage(v))

getMeasurementOrAuto(v) ==
  LET lowerValue == toLowerCase(v)
  IN IF lowerValue = <<"a","u","t","o">> THEN Str(lowerValue) ELSE getMeasurement(v)

\* isNaN(parseInt(v)): parseInt skips leading white space and a sign, then reads
\* the digits of the radix (16 after a 0x prefix, else 10); NaN when there is none.
ParseIntIsNaN(v) ==
  LET lead == {i \in 1..Len(v) : v[i] \notin WhiteSpace}
      b == IF lead = {} THEN Len(v) + 1 ELSE CHOOSE i \in lead : \A j \in lead : i <= j
      a == IF b <= Len(v) /\ v[b] \in {"+", "-"} THEN b + 1 ELSE b
      hex == a + 1 <= Len(v) /\ v[a] = "0" /\ v[a + 1] \in {"x", "X"}
  IN IF hex THEN ~(a + 2 <= Len(v) /\ v[a + 2] \in HexDigits)
     ELSE ~(a <= Len(v) /\ v[a] \in Digits)

getInteger(v) == IF ~ParseIntIsNaN(v) THEN Str(v) ELSE Null

getColor(v) == IF RegExpTest(COLOR_REGEXP, v) THEN Str(v) ELSE Null

\* URL_REGEXP.exec(value)[1]: \s* takes the white space after "url(" and the
\* group [^)]* all that follows up to the closing parenthesis.
UrlGroup(v) ==
  LET rest == {i \in 5..(Len(v) - 1) : v[i] \notin WhiteSpace}
  IN IF rest = {} THEN <<>>
     ELSE SubSeq(v, CHOOSE i \in rest : \A j \in rest : i <= j, Len(v) - 1)

RECURSIVE UrlScan(_, _)

\* The for loop of getURL over url from the 1-based position i: TRUE when it
\* returns null.
UrlScan(url, i) ==
  IF i > Len(url) THEN FALSE
  ELSE IF url[i] \in {"(", ")", " ", "\t", "\n", "'", "\""} THEN TRUE
  ELSE IF url[i] = "\\" THEN UrlScan(url, i + 2)
  ELSE UrlScan(url, i + 1)

getURL(v) ==
  IF v = <<>> THEN Null
  ELSE LET lowerValue == toLowerCase(v)
       IN IF lowerValue = <<"n","o","n","e">> \/ lowerValue = <<"i","n","h","e","r","i","t">> THEN Str(lowerValue)
          ELSE IF ~RegExpTest(URL_REGEXP, v) THEN Null
          ELSE LET url0 == UrlGroup(v)
                   quoted == url0 # <<>> /\ url0[1] \in {"\"", "'"}
               IN IF quoted /\ url0[1] # url0[Len(url0)] THEN Null
                  ELSE LET url == IF quoted THEN substring(url0, 1, Len(url0) - 1) ELSE url0
                       IN IF UrlScan(url, 1) THEN Null ELSE Str(v)

(***************************************************************************)
(* CSSStyleDeclarationPropertyValueParser: constants                       *)
(***************************************************************************)
\* /^rect\((.*)\)$/i
RECT_REGEXP == Cat(<<Bol, LitI(<<"r","e","c","t","(">>), Star(AnyChr), Chr({")"}), Eol>>)

BORDER_STYLE ==
  <<<<"n","o","n","e">>, <<"h","i","d","d","e","n">>, <<"d","o","t","t","e","d">>, <<"d","a","s","h","e","d">>, <<"s","o","l","i","d">>, <<"d","o","u","b","l","e">>, <<"g","r","o","o","v","e">>,
    <<"r","i","d","g","e">>, <<"i","n","s","e","t">>, <<"o","u","t","s","e","t">>>>

BORDER_WIDTH ==
  <<<<"t","h","i","n">>, <<"m","e","d","i","u","m">>, <<"t","h","i","c","k">>, <<"i","n","h","e","r","i","t">>, <<"i","n","i","t","i","a","l">>, <<"u","n","s","e","t">>, <<"r","e","v","e","r","t">>>>

BORDER_COLLAPSE == <<<<"s","e","p","a","r","a","t","e">>, <<"c","o","l","l","a","p","s","e">>, <<"i","n","i","t","i","a","l">>, <<"i","n","h","e","r","i","t">>>>

BACKGROUND_REPEAT == <<<<"r","e","p","e","a","t">>, <<"r","e","p","e","a","t","-","x">>, <<"r","e","p","e","a","t","-","y">>, <<"n","o","-","r","e","p","e","a","t">>, <<"i","n","h","e","r","i","t">>>>

BACKGROUND_ATTACHMENT == <<<<"s","c","r","o","l","l">>, <<"f","i","x","e","d">>, <<"i","n","h","e","r","i","t">>>>

BACKGROUND_POSITION == <<<<"t","o","p">>, <<"c","e","n","t","e","r">>, <<"b","o","t","t","o","m">>, <<"l","e","f","t">>, <<"r","i","g","h","t">>>>

FLEX_BASIS ==
  <<<<"a","u","t","o">>, <<"f","i","l","l">>, <<"m","a","x","-","c","o","n","t","e","n","t">>, <<"m","i","n","-","c","o","n","t","e","n","t">>, <<"f","i","t","-","c","o","n","t","e","n","t">>, <<"c","o","n","t","e","n","t">>,
    <<"i","n","h","e","r","i","t">>, <<"i","n","i","t","i","a","l">>, <<"r","e","v","e","r","t">>, <<"u","n","s","e","t">>>>

CLEAR == <<<<"n","o","n","e">>, <<"l","e","f","t">>, <<"r","i","g","h","t">>, <<"b","o","t","h">>, <<"i","n","h","e","r","i","t">>>>

FLOAT == <<<<"n","o","n","e">>, <<"l","e","f","t">>, <<"r","i","g","h","t">>, <<"i","n","h","e","r","i","t">>>>

FONT_SIZE ==
  <<<<"x","x","-","s","m","a","l","l">>, <<"x","-","s","m","a","l","l">>, <<"s","m","a","l","l">>, <<"m","e","d","i","u","m">>, <<"l","a","r","g","e">>, <<"x","-","l","a","r","g","e">>, <<"x","x","-","l","a","r","g","e">>,
    <<"x","x","x","-","l","a","r","g","e">>, <<"s","m","a","l","l","e","r">>, <<"l","a","r","g","e","r">>, <<"i","n","h","e","r","i","t">>, <<"i","n","i","t","i","a","l">>, <<"r","e","v","e","r","t">>, <<"u","n","s","e","t">>>>

(***************************************************************************)
(* Property values: an object literal { name: { value, important } } is a  *)
(* function from its property names to [value, important].                 *)
(***************************************************************************)
\* { value, important }
PropertyValue(v, imp) == [value |-> v, important |-> imp]

\* {}
NoProperties == [n \in {} |-> PropertyValue(Null, FALSE)]

\* Object.assign(target, source), and target[name] = entry for a one-name source.
Assign(target, source) ==
  [n \in (DOMAIN target) \cup (DOMAIN source) |->
     IF n \in DOMAIN source THEN source[n] ELSE target[n]]

\* { [name]: entry }
One(name, entry) == [n \in {name} |-> entry]

\* / +/
SPACES == Plus(Chr({" "}))

\* /\s+/
WHITESPACES == Plus(Chr(WhiteSpace))

\* /\s*,\s*/
COMMA == Cat(<<Star(Chr(WhiteSpace)), Chr({","}), Star(Chr(WhiteSpace))>>)

(***************************************************************************)
(* CSSStyleDeclarationPropertyValueParser: single-value properties         *)
(***************************************************************************)
getBorderStyle(v, imp) ==
  LET lowerValue == toLowerCase(v)
  IN IF Includes(BORDER_STYLE, lowerValue)
       THEN Obj(One("border-style", PropertyValue(Str(lowerValue), imp)))
       ELSE Null

getBorderCollapse(v, imp) ==
  LET lowerValue == toLowerCase(v)
  IN IF Includes(BORDER_COLLAPSE, lowerValue)
       THEN Obj(One("border-collapse", PropertyValue(Str(lowerValue), imp)))
       ELSE Null

getBackgroundRepeat(v, imp) ==
  LET lowerValue == toLowerCase(v)
  IN IF Includes(BACKGROUND_REPEAT, lowerValue)
       THEN Obj(One("background-repeat", PropertyValue(Str(lowerValue), imp)))
       ELSE Null

getBackgroundAttachment(v, imp) ==
  LET lowerValue == toLowerCase(v)
  IN IF Includes(BACKGROUND_ATTACHMENT, lowerValue)
       THEN Obj(One("background-attachment", PropertyValue(Str(lowerValue), imp)))
       ELSE Null

\* Mutant of getBackgroundPosition: of two tokens each one may be a length, a
\* percentage or a keyword, so that a keyword beside a length is accepted.
getBackgroundPosition_MixedPair(v, imp) ==
  IF v = <<>> THEN Null
  ELSE LET parts == Split(WHITESPACES, v)
           lowerValue == toLowerCase(v)
       IN IF Len(parts) > 2 \/ Len(parts) < 1 THEN Null
          ELSE IF Len(parts) = 1
            THEN IF Truthy(getLength(parts[1]))
                   THEN Obj(One("background-position", PropertyValue(Str(v), imp)))
                 ELSE IF parts[1] # <<>> /\ (\/ Includes(BACKGROUND_POSITION, lowerValue)
                                             \/ lowerValue = <<"i","n","h","e","r","i","t">>)
                   THEN Obj(One("background-position", PropertyValue(Str(lowerValue), imp)))
                 ELSE Null
          ELSE IF \A i \in 1..2 :
                    \/ Truthy(OrElse(getLength(parts[i]), getPercentage(parts[i])))
                    \/ Includes(BACKGROUND_POSITION, toLowerCase(parts[i]))
            THEN Obj(One("background-position", PropertyValue(Str(lowerValue), imp)))
          ELSE Null

getBackgroundPosition(v, imp) ==
  IF v = <<>> THEN Null
  ELSE LET parts == Split(WHITESPACES, v)
           lowerValue == toLowerCase(v)
       IN IF Len(parts) > 2 \/ Len(parts) < 1 THEN Null
          ELSE IF Len(parts) = 1
            THEN IF Truthy(getLength(parts[1]))
                   THEN Obj(One("background-position", PropertyValue(Str(v), imp)))
                 ELSE IF parts[1] # <<>> /\ (\/ Includes(BACKGROUND_POSITION, lowerValue)
                                             \/ lowerValue = <<"i","n","h","e","r","i","t">>)
                   THEN Obj(One("background-position", PropertyValue(Str(lowerValue), imp)))
                 ELSE Null
          ELSE IF /\ Truthy(OrElse(getLength(parts[1]), getPercentage(parts[1])))
                  /\ Truthy(OrElse(getLength(parts[2]), getPercentage(parts[2])))
            THEN Obj(One("background-position", PropertyValue(Str(lowerValue), imp)))
          ELSE IF /\ Includes(BACKGROUND_POSITION, toLowerCase(parts[1]))
                  /\ Includes(BACKGROUND_POSITION, toLowerCase(parts[2]))
            THEN Obj(One("background-position",
                         PropertyValue(Str(toLowerCase(parts[1]) \o <<" ">> \o toLowerCase(parts[2])),
                                       imp)))
          ELSE Null

getFlexBasis(v, imp) ==
  LET lowerValue == toLowerCase(v)
  IN IF Includes(FLEX_BASIS, lowerValue)
       THEN Obj(One("flex-basis", PropertyValue(Str(lowerValue), imp)))
       ELSE Obj(One("flex-basis", PropertyValue(getLength(v), imp)))

getBorderWidth(v, imp) ==
  LET lowerValue == toLowerCase(v)
      length == getLength(v)
  IN IF Includes(BORDER_WIDTH, lowerValue)
       THEN Obj(One("border-width", PropertyValue(Str(lowerValue), imp)))
       ELSE IF Truthy(length) THEN Obj(One("border-width", PropertyValue(length, imp)))
       ELSE Null

getClear(v, imp) ==
  LET lowerValue == toLowerCase(v)
  IN IF Includes(CLEAR, lowerValue)
       THEN Obj(One("clear", PropertyValue(Str(lowerValue), imp)))
       ELSE Null

\* lowerValue.match(RECT_REGEXP)[1]: what lies between "rect(" and the last ")".
RectGroup(lowerValue) == SubSeq(lowerValue, Len(<<"r","e","c","t","(">>) + 1, Len(lowerValue) - 1)

getClip(v, imp) ==
  LET lowerValue == toLowerCase(v)
  IN IF lowerValue = <<"a","u","t","o">> \/ lowerValue = <<"i","n","i","t","i","a","l">> \/ lowerValue = <<"i","n","h","e","r","i","t">>
       THEN Obj(One("clip", PropertyValue(Str(lowerValue), imp)))
     ELSE IF ~RegExpTest(RECT_REGEXP, lowerValue) THEN Null
     ELSE LET parts == Split(COMMA, RectGroup(lowerValue))
          IN IF Len(parts) # 4 THEN Null
             ELSE IF \E i \in DOMAIN parts : ~Truthy(getMeasurement(parts[i])) THEN Null
             ELSE Obj(One("clip", PropertyValue(Str(v), imp)))

getFloat(v, imp) ==
  LET lowerValue == toLowerCase(v)
  IN IF Includes(FLOAT, lowerValue)
       THEN Obj(One("float", PropertyValue(Str(lowerValue), imp)))
       ELSE Null

getFontSize(v, imp) ==
  LET lowerValue == toLowerCase(v)
      measurement == OrElse(getLength(v), getPercentage(v))
  IN IF Includes(FONT_SIZE, lowerValue)
       THEN Obj(One("font-size", PropertyValue(Str(lowerValue), imp)))
       ELSE IF Truthy(measurement) THEN Obj(One("font-size", PropertyValue(measurement, imp)))
       ELSE Null

(***************************************************************************)
(* CSSStyleDeclarationPropertyValueParser: shorthands                      *)
(***************************************************************************)
\* The absent marker: the '' of  parts[i] ? parse(parts[i]) : ''
Absent == Str(<<>>)

\* { ...object } of one entry
Spread(entry) == PropertyValue(entry.value, entry.important)

\* The four assignments  propertyValues['border-<side>-<suffix>'] = entry
AssignSides(target, suffix, entry) ==
  Assign(target,
         [n \in {"border-top-" \o suffix, "border-right-" \o suffix,
                 "border-bottom-" \o suffix, "border-left-" \o suffix} |-> entry])

getBorder(v, imp) ==
  LET parts == Split(SPACES, v)
      borderWidth == IF Truthy(At(parts, 0)) THEN getBorderWidth(parts[1], imp) ELSE Absent
      borderStyle == IF Truthy(At(parts, 1)) THEN getBorderStyle(parts[2], imp) ELSE Absent
      borderColor == IF Truthy(At(parts, 2)) THEN getColor(parts[3]) ELSE Absent
      pv0 == NoProperties
      pv1 == IF Truthy(borderWidth)
               THEN AssignSides(pv0, "width", Spread(borderWidth.m["border-width"]))
               ELSE pv0
      pv2 == IF Truthy(borderStyle)
               THEN AssignSides(pv1, "style", Spread(borderStyle.m["border-style"]))
               ELSE pv1
      pv3 == IF Truthy(borderColor)
               THEN AssignSides(pv2, "style", PropertyValue(borderColor, imp))
               ELSE pv2
  IN IF Truthy(borderWidth) /\ borderStyle # Null /\ borderColor # Null
       THEN Obj(pv3)
       ELSE Null

\* Mutant of getBorderRadius: every corner parses the first token, as getPadding
\* does for its sides.
getBorderRadius_FirstToken(v, imp) ==
  LET parts == Split(SPACES, v)
      topLeft == IF Truthy(At(parts, 0)) THEN getMeasurement(parts[1]) ELSE Absent
      topRight == IF Truthy(At(parts, 1)) THEN getMeasurement(parts[1]) ELSE Absent
      bottomRight == IF Truthy(At(parts, 2)) THEN getMeasurement(parts[1]) ELSE Absent
      bottomLeft == IF Truthy(At(parts, 3)) THEN getMeasurement(parts[1]) ELSE Absent
      pv0 == NoProperties
      pv1 == IF Truthy(topLeft)
               THEN Assign(pv0, One("border-top-left-radius", PropertyValue(topLeft, imp)))
               ELSE pv0
      pv2 == IF Truthy(topRight)
               THEN Assign(pv1, One("border-top-right-radius", PropertyValue(topRight, imp)))
               ELSE pv1
      pv3 == IF Truthy(bottomRight)
               THEN Assign(pv2, One("border-bottom-right-radius", PropertyValue(bottomRight, imp)))
               ELSE pv2
      pv4 == IF Truthy(bottomLeft)
               THEN Assign(pv3, One("border-bottom-left-radius", PropertyValue(bottomLeft, imp)))
               ELSE pv3
  IN IF Truthy(topLeft) /\ topRight # Null /\ bottomRight # Null /\ bottomLeft # Null
       THEN Obj(pv4)
       ELSE Null

getBorderRadius(v, imp) ==
  LET parts == Split(SPACES, v)
      topLeft == IF Truthy(At(parts, 0)) THEN getMeasurement(parts[1]) ELSE Absent
      topRight == IF Truthy(At(parts, 1)) THEN getMeasurement(parts[2]) ELSE Absent
      bottomRight == IF Truthy(At(parts, 2)) THEN getMeasurement(parts[3]) ELSE Absent
      bottomLeft == IF Truthy(At(parts, 3)) THEN getMeasurement(parts[4]) ELSE Absent
      pv0 == NoProperties
      pv1 == IF Truthy(topLeft)
               THEN Assign(pv0, One("border-top-left-radius", PropertyValue(topLeft, imp)))
               ELSE pv0
      pv2 == IF Truthy(topRight)
               THEN Assign(pv1, One("border-top-right-radius", PropertyValue(topRight, imp)))
               ELSE pv1
      pv3 == IF Truthy(bottomRight)
               THEN Assign(pv2, One("border-bottom-right-radius", PropertyValue(bottomRight, imp)))
               ELSE pv2
      pv4 == IF Truthy(bottomLeft)
               THEN Assign(pv3, One("border-bottom-left-radius", PropertyValue(bottomLeft, imp)))
               ELSE pv3
  IN IF Truthy(topLeft) /\ topRight # Null /\ bottomRight # Null /\ bottomLeft # Null
       THEN Obj(pv4)
       ELSE Null

\* Mutant of getBorderByPosition: the nested border-width call is not given the
\* important flag, which is then falsy.
getBorderByPosition_WidthLosesImportant(position, v, imp) ==
  LET parts == Split(SPACES, v)
      borderWidth == IF Truthy(At(parts, 0)) THEN getBorderWidth(parts[1], FALSE) ELSE Absent
      borderStyle == IF Truthy(At(parts, 1)) THEN getBorderStyle(parts[2], imp) ELSE Absent
      borderColor == IF Truthy(At(parts, 2)) THEN getColor(parts[3]) ELSE Absent
  IN IF Truthy(borderWidth) /\ Truthy(borderStyle) /\ Truthy(borderColor)
       THEN Obj(Assign(Assign(One("border-" \o position \o "-width",
                                  borderWidth.m["border-width"]),
                              One("border-" \o position \o "-style",
                                  borderStyle.m["border-style"])),
                       One("border-" \o position \o "-color", PropertyValue(borderColor, imp))))
       ELSE Null

\* Mutant of getBorderByPosition: the acceptance test of getBorder, under which an
\* absent style or color does not reject, with the entries of the tokens given.
getBorderByPosition_NullChecks(position, v, imp) ==
  LET parts == Split(SPACES, v)
      borderWidth == IF Truthy(At(parts, 0)) THEN getBorderWidth(parts[1], imp) ELSE Absent
      borderStyle == IF Truthy(At(parts, 1)) THEN getBorderStyle(parts[2], imp) ELSE Absent
      borderColor == IF Truthy(At(parts, 2)) THEN getColor(parts[3]) ELSE Absent
      pv0 == NoProperties
      pv1 == IF Truthy(borderWidth)
               THEN Assign(pv0, One("border-" \o position \o "-width",
                                    borderWidth.m["border-width"]))
               ELSE pv0
      pv2 == IF Truthy(borderStyle)
               THEN Assign(pv1, One("border-" \o position \o "-style",
                                    borderStyle.m["border-style"]))
               ELSE pv1
      pv3 == IF Truthy(borderColor)
               THEN Assign(pv2, One("border-" \o position \o "-color",
                                    PropertyValue(borderColor, imp)))
               ELSE pv2
  IN IF Truthy(borderWidth) /\ borderStyle # Null /\ borderColor # Null
       THEN Obj(pv3)
       ELSE Null

getBorderByPosition(position, v, imp) ==
  LET parts == Split(SPACES, v)
      borderWidth == IF Truthy(At(parts, 0)) THEN getBorderWidth(parts[1], imp) ELSE Absent
      borderStyle == IF Truthy(At(parts, 1)) THEN getBorderStyle(parts[2], imp) ELSE Absent
      borderColor == IF Truthy(At(parts, 2)) THEN getColor(parts[3]) ELSE Absent
  IN IF Truthy(borderWidth) /\ Truthy(borderStyle) /\ Truthy(borderColor)
       THEN Obj(Assign(Assign(One("border-" \o position \o "-width",
                                  borderWidth.m["border-width"]),
                              One("border-" \o position \o "-style",
                                  borderStyle.m["border-style"])),
                       One("border-" \o position \o "-color", PropertyValue(borderColor, imp))))
       ELSE Null

getBorderTop(v, imp) == getBorderByPosition("top", v, imp)

getBorderRight(v, imp) == getBorderByPosition("right", v, imp)

getBorderBottom(v, imp) == getBorderByPosition("bottom", v, imp)

getBorderLeft(v, imp) == getBorderByPosition("left", v, imp)

getMarginByPosition(position, v, imp) ==
  LET lowerValue == toLowerCase(v)
      measurement == getMeasurement(v)
  IN IF lowerValue = <<"a","u","t","o">>
       THEN Obj(One("margin-" \o position, PropertyValue(Str(<<"a","u","t","o">>), imp)))
       ELSE IF Truthy(measurement)
         THEN Obj(One("margin-" \o position, PropertyValue(measurement, imp)))
         ELSE Null

getPaddingByPosition(position, v, imp) ==
  LET measurement == getMeasurement(v)
  IN IF Truthy(measurement)
       THEN Obj(One("padding-" \o position, PropertyValue(measurement, imp)))
       ELSE Null

getPadding(v, imp) ==
  LET parts == Split(SPACES, v)
      top == IF Truthy(At(parts, 0)) THEN getPaddingByPosition("top", parts[1], imp) ELSE Absent
      right == IF Truthy(At(parts, 1)) THEN getPaddingByPosition("right", parts[1], imp) ELSE Absent
      bottom == IF Truthy(At(parts, 2)) THEN getPaddingByPosition("bottom", parts[1], imp) ELSE Absent
      left == IF Truthy(At(parts, 3)) THEN getPaddingByPosition("left", parts[1], imp) ELSE Absent
      pv0 == NoProperties
      pv1 == IF Truthy(top) THEN Assign(pv0, top.m) ELSE pv0
      pv2 == IF Truthy(right) THEN Assign(pv1, right.m) ELSE pv1
      pv3 == IF Truthy(bottom) THEN Assign(pv2, bottom.m) ELSE pv2
      pv4 == IF Truthy(left) THEN Assign(pv3, left.m) ELSE pv3
  IN IF Truthy(top) /\ right # Null /\ bottom # Null /\ left # Null
       THEN Obj(pv4)
       ELSE Null

getPaddingTop(v, imp) == getPaddingByPosition("top", v, imp)

getPaddingRight(v, imp) == getPaddingByPosition("right", v, imp)

getPaddingBottom(v, imp) == getPaddingByPosition("bottom", v, imp)

getPaddingLeft(v, imp) == getPaddingByPosition("left", v, imp)

getMargin(v, imp) ==
  LET parts == Split(SPACES, v)
      top == IF Truthy(At(parts, 0)) THEN getMarginByPosition("top", parts[1], imp) ELSE Absent
      right == IF Truthy(At(parts, 1)) THEN getMarginByPosition("right", parts[1], imp) ELSE Absent
      bottom == IF Truthy(At(parts, 2)) THEN getMarginByPosition("bottom", parts[1], imp) ELSE Absent
      left == IF Truthy(At(parts, 3)) THEN getMarginByPosition("left", parts[1], imp) ELSE Absent
      pv0 == NoProperties
      pv1 == IF Truthy(top) THEN Assign(pv0, top.m) ELSE pv0
      pv2 == IF Truthy(right) THEN Assign(pv1, right.m) ELSE pv1
      pv3 == IF Truthy(bottom) THEN Assign(pv2, bottom.m) ELSE pv2
      pv4 == IF Truthy(left) THEN Assign(pv3, left.m) ELSE pv3
  IN IF Truthy(top) /\ right # Null /\ bottom # Null /\ left # Null
       THEN Obj(pv4)
       ELSE Null

getMarginTop(v, imp) == getMarginByPosition("top", v, imp)

getMarginRight(v, imp) == getMarginByPosition("right", v, imp)

getMarginBottom(v, imp) == getMarginByPosition("bottom", v, imp)

getMarginLeft(v, imp) == getMarginByPosition("left", v, imp)

(***************************************************************************)
(* getFlex and getBackground.  Both are static methods, so `this` is the   *)
(* class CSSStyleDeclarationPropertyValueParser: this.<name> is one of its *)
(* static members or undefined.  Calling undefined, or assigning to a      *)
(* property of undefined, throws a TypeError.                              *)
(***************************************************************************)
StaticMembers ==
  {"getBorderStyle", "getBorderCollapse", "getBackgroundRepeat", "getBackgroundAttachment",
   "getBackgroundPosition", "getFlexBasis", "getBorderWidth", "getClear", "getClip",
   "getFloat", "getFontSize", "getBorder", "getBorderRadius", "getBorderTop",
   "getBorderRight", "getBorderBottom", "getBorderLeft", "getPadding", "getPaddingTop",
   "getPaddingRight", "getPaddingBottom", "getPaddingLeft", "getMargin", "getMarginTop",
   "getMarginRight", "getMarginBottom", "getMarginLeft", "getFlex", "getBackground",
   "getBorderByPosition", "getMarginByPosition", "getPaddingByPosition"}

\* A completion of a call or statement: normal with a value, and the entries
\* written to this.properties so far, or a thrown TypeError.
Normal(result, properties) ==
  [kind |-> "return", result |-> result, properties |-> properties]

TypeError == [kind |-> "throw", error |-> "TypeError"]

\* this.<name>(arg) with the one argument the callers pass; the second
\* parameter (important) of the callee is then undefined.
ThisCall(name, arg, properties) ==
  IF name \notin StaticMembers THEN TypeError
  ELSE Normal(CASE name = "getFlexBasis" -> getFlexBasis(arg, Undefined)
                [] name = "getBackgroundRepeat" -> getBackgroundRepeat(arg, Undefined)
                [] name = "getBackgroundAttachment" -> getBackgroundAttachment(arg, Undefined)
                [] name = "getBackgroundPosition" -> getBackgroundPosition(arg, Undefined),
              properties)

\* this.properties[name] = entry
SetProperty(properties, name, entry) ==
  IF "properties" \notin StaticMembers THEN TypeError
  ELSE Normal(Undefined, Assign(properties, One(name, entry)))

\* The statement  this.properties[name] = entry  after the statements that
\* completed as s: a throw of an earlier statement ends the method.
ThenSet(s, name, entry) ==
  IF s.kind = "throw" THEN s ELSE SetProperty(s.properties, name, entry)

\* if (cond) { this.properties[name] = entry; }
ThenSetIf(cond, s, name, entry) == IF cond THEN ThenSet(s, name, entry) ELSE s

\* The three assignments to flex-grow, flex-shrink and flex-basis.
SetFlex(imp, grow, shrink, basis) ==
  ThenSet(ThenSet(ThenSet(Normal(Undefined, NoProperties),
                          "flex-grow", PropertyValue(grow, imp)),
                  "flex-shrink", PropertyValue(shrink, imp)),
          "flex-basis", PropertyValue(basis, imp))

\* parts[i] ? this.<name>(parts[i]) : ''
Slot(parts, i, name) ==
  IF Truthy(At(parts, i)) THEN ThisCall(name, parts[i + 1], NoProperties)
  ELSE Normal(Absent, NoProperties)

\* Lines 684-688 of getFlex, given the completions of the three slots.
FlexEmit(flexGrow, flexShrink, flexBasis, imp) ==
  IF flexGrow.kind = "throw" THEN flexGrow
  ELSE IF flexShrink.kind = "throw" THEN flexShrink
  ELSE IF flexBasis.kind = "throw" THEN flexBasis
  ELSE IF Truthy(flexGrow.result) /\ Truthy(flexShrink.result) /\ Truthy(flexBasis.result)
    THEN SetFlex(imp, flexGrow.result, flexShrink.result, flexBasis.result)
    ELSE Normal(Undefined, NoProperties)

\* Lines 679-688 of getFlex.
FlexParts(parts, imp) ==
  FlexEmit(Slot(parts, 0, "getInteger"), Slot(parts, 1, "getInteger"),
           Slot(parts, 2, "getFlexBasis"), imp)

getFlex(v, imp) ==
  LET lowerValue == toLowerCase(trim(v))
  IN CASE lowerValue = <<"n","o","n","e">> -> SetFlex(imp, Str(<<"0">>), Str(<<"0">>), Str(<<"a","u","t","o">>))
       [] lowerValue = <<"a","u","t","o">> -> SetFlex(imp, Str(<<"1">>), Str(<<"1">>), Str(<<"a","u","t","o">>))
       [] lowerValue = <<"i","n","i","t","i","a","l">> -> SetFlex(imp, Str(<<"0">>), Str(<<"0">>), Str(<<"a","u","t","o">>))
       [] lowerValue = <<"i","n","h","e","r","i","t">> ->
            SetFlex(imp, Str(<<"i","n","h","e","r","i","t">>), Str(<<"i","n","h","e","r","i","t">>), Str(<<"i","n","h","e","r","i","t">>))
       [] OTHER -> FlexParts(Split(SPACES, v), imp)

\* Lines 716-726 of getBackground, given the completions of the five slots.
BackgroundEmit(color, image, repeat, attachment, position, imp) ==
  IF color.kind = "throw" THEN color
  ELSE IF image.kind = "throw" THEN image
  ELSE IF repeat.kind = "throw" THEN repeat
  ELSE IF attachment.kind = "throw" THEN attachment
  ELSE IF position.kind = "throw" THEN position
  ELSE IF /\ (Truthy(color.result) \/ Truthy(image.result))
          /\ repeat.result # Null
          /\ attachment.result # Null
          /\ position.result # Null
    THEN ThenSet(
           ThenSet(
             ThenSet(
               ThenSetIf(Truthy(image.result),
                         ThenSetIf(Truthy(color.result), Normal(Undefined, NoProperties),
                                   "background-color", PropertyValue(color.result, imp)),
                         "background-image", PropertyValue(image.result, imp)),
               "background-repeat", PropertyValue(repeat.result, imp)),
             "background-attachment", PropertyValue(attachment.result, imp)),
           "background-position", PropertyValue(position.result, imp))
    ELSE Normal(Undefined, NoProperties)

\* Lines 710-726 of getBackground.
BackgroundParts(parts, imp) ==
  BackgroundEmit(Slot(parts, 0, "getColor"), Slot(parts, 1, "getURL"),
                 Slot(parts, 2, "getBackgroundRepeat"),
                 Slot(parts, 3, "getBackgroundAttachment"),
                 Slot(parts, 4, "getBackgroundPosition"), imp)

\* Lines 706-726 of getBackground, given the completion of the first
\* this.getColor(parts[0]): parts.unshift('') when it is no color.
BackgroundShift(split, first, imp) ==
  IF first.kind = "throw" THEN first
  ELSE BackgroundParts(IF ~Truthy(first.result) THEN <<(<<>>)>> \o split ELSE split, imp)

getBackground(v, imp) ==
  IF ~Truthy(At(Split(SPACES, v), 0)) THEN Normal(Undefined, NoProperties)
  ELSE BackgroundShift(Split(SPACES, v),
                       ThisCall("getColor", Split(SPACES, v)[1], NoProperties), imp)

(***************************************************************************)
(* Inputs.                                                                 *)
(***************************************************************************)
\* The most tokens of a shorthand value.
MaxTokens == 4

\* The most hex digits after '#'.
MaxHexDigits == 8

RECURSIVE Join(_)

\* tokens.join(' ')
Join(tokens) ==
  IF Len(tokens) = 0 THEN <<>>
  ELSE IF Len(tokens) = 1 THEN tokens[1]
  ELSE tokens[1] \o <<" ">> \o Join(Tail(tokens))

\* The values of up to MaxTokens tokens of the pool, one space between two
\* tokens: an empty token makes a leading, trailing or double space.
Sentences(pool) == {Join(ts) : ts \in UNION {[1..k -> pool] : k \in 0..MaxTokens}}

Keywords ==
  Range(BORDER_STYLE) \cup Range(BORDER_WIDTH) \cup Range(BORDER_COLLAPSE)
    \cup Range(BACKGROUND_REPEAT) \cup Range(BACKGROUND_ATTACHMENT)
    \cup Range(BACKGROUND_POSITION) \cup Range(FLEX_BASIS) \cup Range(CLEAR)
    \cup Range(FLOAT) \cup Range(FONT_SIZE)

Capitalize(s) == [i \in 1..Len(s) |-> IF i = 1 THEN ToUpperChar(s[i]) ELSE s[i]]

MeasureInputs ==
  {<<>>, <<"0">>, <<"1","p","x">>, <<"1",".","5","e","m">>, <<"-","2","p","t">>, <<".","5","r","e","m">>, <<"+","3","v","h">>, <<"1","0","c","h">>, <<"1","P","X">>, <<"1">>,
   <<"p","x">>, <<"1",".","p","x">>, <<"0","0">>, <<"5","%">>, <<"-",".","5","%">>, <<"%">>, <<"1","2">>, <<"1","2","p","x">>, <<" ","7">>, <<"0","x">>, <<"0","x","1","f">>,
   <<"-">>, <<"x">>, <<"a","b","c">>, <<" ","t","h","i","n">>, <<"t","h","i","n"," ">>, <<"1","p","x",";">>}

\* One-token values: every keyword of every property in lower, upper and
\* capitalized case, and numbers with and without units.
SingleInputs ==
  Keywords \cup {toUpperCase(k) : k \in Keywords} \cup {Capitalize(k) : k \in Keywords}
    \cup MeasureInputs

BorderInputs == Sentences({<<>>, <<"0">>, <<"S","o","l","i","d">>, <<"#","f","f","f">>, <<"x">>})

BoxInputs == Sentences({<<>>, <<"0">>, <<"1","p","x">>, <<"A","U","T","O">>, <<"x">>})

FlexInputs ==
  Sentences({<<>>, <<"1">>, <<"a","u","t","o">>, <<"x">>})
    \cup {<<"n","o","n","e">>, <<"N","o","n","e">>, <<" ","n","o","n","e"," ">>, <<"A","U","T","O">>, <<"i","n","i","t","i","a","l">>, <<"i","n","h","e","r","i","t">>, <<"\t","I","N","H","E","R","I","T","\n">>,
          <<"a","b","c">>, <<"1"," ","1"," ","1","0","p","x">>, <<"0"," ","0"," ","0">>}

BackgroundInputs == Sentences({<<>>, <<"#","f","f","f">>, <<"u","r","l","(","a",")">>, <<"r","e","p","e","a","t">>, <<"f","i","x","e","d">>})
                      \cup {<<"#","f","f","f"," ","u","r","l","(","a",")"," ","r","e","p","e","a","t"," ","f","i","x","e","d"," ","t","o","p">>, <<"u","r","l","(","a",")"," ","n","o","-","r","e","p","e","a","t"," ","s","c","r","o","l","l"," ","0">>, <<"x">>}

HexInputs ==
  {<<"#">> \o ds : ds \in UNION {[1..k -> {"a", "F"}] : k \in 0..MaxHexDigits}}

ColorInputs ==
  HexInputs \cup
  {<<>>, <<"#","0","9","f">>, <<"#","0","9","f","g">>, <<"0","9","f">>, <<"#","0","0","0","0","0","0","0">>, <<" ","#","f","f","f">>, <<"#","f","f","f"," ">>, <<"r","e","d">>,
   <<"r","g","b","(","1",",","2",",","3",")">>, <<"r","g","b","(",")">>, <<"r","g","b","(","1",",","2",",","3">>, <<"r","g","b","a","(","0",","," ","0",","," ","0",","," ",".","5",")">>, <<"R","G","B","(","1",",","2",",","3",")">>,
   <<"r","g","b","(","1",")","(","2",")">>, <<"h","s","l","(","1",",","2","%",",","3","%",")">>, <<"h","s","l","a","(","1",","," ","2","%",","," ","3","%",","," ",".","5",")">>, <<"h","s","l","(","1",",","2",",","3",")">>,
   <<"h","s","l","(","-","1"," ",","," ","2","%",",","x","3","%"," ",")","t","a","i","l">>, <<"h","s","l","a","(","1",",","2","%",",","3","%">>}

UrlInputs ==
  {<<>>, <<"n","o","n","e">>, <<"I","N","H","E","R","I","T">>, <<"u","r","l","(","f","o","o",".","p","n","g",")">>, <<"u","r","l","("," ","f","o","o",".","p","n","g"," ",")">>, <<"u","r","l","(","\"","a"," ","b",".","p","n","g","\"",")">>,
   <<"u","r","l","(","\"","a","\\"," ","b",".","p","n","g","\"",")">>, <<"u","r","l","(","'","a",".","p","n","g","'",")">>, <<"u","r","l","(","'","a",".","p","n","g","\"",")">>, <<"u","r","l","(","\"","a",".","p","n","g",")">>,
   <<"u","r","l","(","a","'","b",")">>, <<"u","r","l","(","a","\\","'","b",")">>, <<"u","r","l","(","\"",")">>, <<"u","r","l","(",")">>, <<"u","r","l","(","a",")","b",")">>, <<"U","R","L","(","a",")">>, <<"u","r","l","(","a">>,
   <<"f","o","o",".","p","n","g">>, <<"u","r","l","(","a","\\",")">>, <<"u","r","l","(","\"","\"",")">>, <<"u","r","l","(","a","\\",")",")">>, <<"u","r","l","(","\"","a","\\",")","b","\"",")">>,
   <<"u","r","l","("," ","f","o","o",".","p","n","g",")">>, <<"u","r","l","(","f","o","o",".","p","n","g"," ",")">>, <<"u","r","l","(","a","\\","(","b",")">>, <<"u","r","l","(","a","(","b",")">>, <<"u","r","l","(","a","\\","\\"," ","b",")">>,
   <<"u","r","l","(","a","\t","b",")">>, <<"u","r","l","(","\"","a","\\","\"",")">>, <<"u","r","l","(","'","a","\"","b","'",")">>, <<"u","r","l","("," "," ",")">>, <<"N","o","n","e">>, <<"u","r","l","(","F","O","O",".","p","n","g",")">>}

PositionInputs ==
  SingleInputs \cup
  {<<"1","0","p","x"," ","2","0","p","x">>, <<"1","0","%"," ","2","0","P","X">>, <<"0"," ","5","%">>, <<"t","o","p"," ","l","e","f","t">>, <<"T","O","P"," ","C","e","n","t","e","r">>, <<"t","o","p"," ","1","0","p","x">>,
   <<"1","0","p","x"," ","t","o","p">>, <<"t","o","p"," ","b","o","t","t","o","m"," ","l","e","f","t">>, <<"t","o","p"," "," ","l","e","f","t">>, <<"t","o","p","\t","l","e","f","t">>, <<" ","t","o","p">>, <<"t","o","p"," ">>,
   <<"i","n","h","e","r","i","t"," ","i","n","h","e","r","i","t">>, <<" ">>, <<"5","%"," ","0">>, <<"l","e","f","t"," ","5","0","%">>, <<"0"," ","c","e","n","t","e","r">>, <<"t","o","p"," ","i","n","h","e","r","i","t">>,
   <<"L","e","f","t","\n","B","O","T","T","O","M">>, <<"1","p","x"," ","2","p","x"," ","3","p","x">>, <<"1","0","p","x"," "," ","5","%">>, <<"t","o","p"," ","x">>, <<"x"," ","1","0","p","x">>}

ClipInputs ==
  {<<>>, <<"a","u","t","o">>, <<"A","U","T","O">>, <<"I","n","i","t","i","a","l">>, <<"i","n","h","e","r","i","t">>, <<"r","e","c","t","(","1","p","x",","," ","2","p","x",","," ","3","p","x",","," ","4","p","x",")">>,
   <<"R","E","C","T","(","1","P","X",","," ","2","p","x",","," ","3","p","x",","," ","4","p","x",")">>, <<"R","e","c","t","(","0",",","0",",","0",",","I","N","H","E","R","I","T",")">>, <<"r","e","c","t","(","1","p","x"," ","2","p","x"," ","3","p","x"," ","4","p","x",")">>,
   <<"r","e","c","t","(","1","p","x",","," ","2","p","x",","," ","3","p","x",")">>, <<"r","e","c","t","(","1","p","x",","," ","2","p","x",","," ","3","p","x",","," ","4","p","x",","," ","5","p","x",")">>, <<"r","e","c","t","(","1","p","x",","," ","2","p","x",","," ","3","p","x",","," ","x",")">>,
   <<"r","e","c","t","(",")">>, <<"r","e","c","t","(","1","p","x"," ",","," ","2","%"," ",",","0",",","0",")">>, <<"r","e","c","t","(","0",",","0",",","0",",","0",")"," ">>, <<"x">>}

Values ==
  SingleInputs \cup BorderInputs \cup BoxInputs \cup FlexInputs \cup BackgroundInputs
    \cup ColorInputs \cup UrlInputs \cup PositionInputs \cup ClipInputs

(***************************************************************************)
(* The state machine: one call of one parser on (value, important).        *)
(***************************************************************************)
Pending == [kind |-> "pending"]

Init ==
  /\ op = "none"
  /\ value \in Values
  /\ important \in BOOLEAN
  /\ outcome = Pending

\* The call name(value, important) with an input of the set ins completes as res.
Call(name, ins, res) ==
  /\ op = "none"
  /\ value \in ins
  /\ op' = name
  /\ outcome' = res
  /\ UNCHANGED <<value, important>>

\* A method that returns its result and neither throws nor writes this.properties.
Returns(result) == Normal(result, NoProperties)

GetLength == Call("getLength", SingleInputs, Returns(getLength(value)))

GetPercentage == Call("getPercentage", SingleInputs, Returns(getPercentage(value)))

GetMeasurement == Call("getMeasurement", SingleInputs, Returns(getMeasurement(value)))

GetMeasurementOrAuto ==
  Call("getMeasurementOrAuto", SingleInputs, Returns(getMeasurementOrAuto(value)))

GetInteger == Call("getInteger", SingleInputs, Returns(getInteger(value)))

GetColor == Call("getColor", ColorInputs, Returns(getColor(value)))

GetURL == Call("getURL", UrlInputs, Returns(getURL(value)))

GetBorderStyle == Call("getBorderStyle", SingleInputs, Returns(getBorderStyle(value, important)))

GetBorderCollapse ==
  Call("getBorderCollapse", SingleInputs, Returns(getBorderCollapse(value, important)))

GetBackgroundRepeat ==
  Call("getBackgroundRepeat", SingleInputs, Returns(getBackgroundRepeat(value, important)))

GetBackgroundAttachment ==
  Call("getBackgroundAttachment", SingleInputs,
       Returns(getBackgroundAttachment(value, important)))

GetBackgroundPosition ==
  Call("getBackgroundPosition", PositionInputs, Returns(getBackgroundPosition(value, important)))

GetFlexBasis == Call("getFlexBasis", SingleInputs, Returns(getFlexBasis(value, important)))

GetBorderWidth == Call("getBorderWidth", SingleInputs, Returns(getBorderWidth(value, important)))

GetClear == Call("getClear", SingleInputs, Returns(getClear(value, important)))

GetClip == Call("getClip", ClipInputs, Returns(getClip(value, important)))

GetFloat == Call("getFloat", SingleInputs, Returns(getFloat(value, important)))

GetFontSize == Call("getFontSize", SingleInputs, Returns(getFontSize(value, important)))

GetBorder == Call("getBorder", BorderInputs, Returns(getBorder(value, important)))

GetBorderRadius == Call("getBorderRadius", BoxInputs, Returns(getBorderRadius(value, important)))

GetBorderTop == Call("getBorderTop", BorderInputs, Returns(getBorderTop(value, important)))

GetBorderRight == Call("getBorderRight", BorderInputs, Returns(getBorderRight(value, important)))

GetBorderBottom ==
  Call("getBorderBottom", BorderInputs, Returns(getBorderBottom(value, important)))

GetBorderLeft == Call("getBorderLeft", BorderInputs, Returns(getBorderLeft(value, important)))

GetPadding == Call("getPadding", BoxInputs, Returns(getPadding(value, important)))

GetPaddingTop == Call("getPaddingTop", SingleInputs, Returns(getPaddingTop(value, important)))

GetPaddingRight ==
  Call("getPaddingRight", SingleInputs, Returns(getPaddingRight(value, important)))

GetPaddingBottom ==
  Call("getPaddingBottom", SingleInputs, Returns(getPaddingBottom(value, important)))

GetPaddingLeft == Call("getPaddingLeft", SingleInputs, Returns(getPaddingLeft(value, important)))

GetMargin == Call("getMargin", BoxInputs, Returns(getMargin(value, important)))

GetMarginTop == Call("getMarginTop", SingleInputs, Returns(getMarginTop(value, important)))

GetMarginRight == Call("getMarginRight", SingleInputs, Returns(getMarginRight(value, important)))

GetMarginBottom ==
  Call("getMarginBottom", SingleInputs, Returns(getMarginBottom(value, important)))

GetMarginLeft == Call("getMarginLeft", SingleInputs, Returns(getMarginLeft(value, important)))

GetFlex == Call("getFlex", FlexInputs, getFlex(value, important))

GetBackground == Call("getBackground", BackgroundInputs, getBackground(value, important))

Next ==
  \/ GetLength \/ GetPercentage \/ GetMeasurement \/ GetMeasurementOrAuto
  \/ GetInteger \/ GetColor \/ GetURL
  \/ GetBorderStyle \/ GetBorderCollapse \/ GetBackgroundRepeat
  \/ GetBackgroundAttachment \/ GetBackgroundPosition \/ GetFlexBasis
  \/ GetBorderWidth \/ GetClear \/ GetClip \/ GetFloat \/ GetFontSize
  \/ GetBorder \/ GetBorderRadius
  \/ GetBorderTop \/ GetBorderRight \/ GetBorderBottom \/ GetBorderLeft
  \/ GetPadding \/ GetPaddingTop \/ GetPaddingRight \/ GetPaddingBottom \/ GetPaddingLeft
  \/ GetMargin \/ GetMarginTop \/ GetMarginRight \/ GetMarginBottom \/ GetMarginLeft
  \/ GetFlex \/ GetBackground

Spec == Init /\ [][Next]_vars

(***************************************************************************)
(* Properties.                                                             *)
(***************************************************************************)
\* The space-separated tokens of the value, and the token at a 0-based position.
Tokens == Split(SPACES, value)

Present(i) == i + 1 <= Len(Tokens) /\ Tokens[i + 1] # <<>>

Token(i) == Tokens[i + 1]

Returned == outcome.kind = "return"

Accepted == Returned /\ outcome.result.t = "object"

Rejected == Returned /\ outcome.result = Null

Sides == <<"top", "right", "bottom", "left">>

\* The entries of the returned mapping.
Entries == outcome.result.m

\* C1: the border shorthand is accepted only if the width, style and color
\* tokens are all present and valid, and then emits exactly the 12 entries
\* border-<side>-{width,style,color}, every side holding the resolved width,
\* style and color.
C1_BorderEmitsTwelveEntries ==
  op = "getBorder" =>
    /\ Returned
    /\ Accepted =>
         /\ Present(0) /\ getBorderWidth(Token(0), important) # Null
         /\ Present(1) /\ getBorderStyle(Token(1), important) # Null
         /\ Present(2) /\ getColor(Token(2)) # Null
         /\ DOMAIN Entries =
              {"border-" \o Sides[i] \o "-" \o part :
                 i \in DOMAIN Sides, part \in {"width", "style", "color"}}
         /\ \A i \in DOMAIN Sides :
              /\ Entries["border-" \o Sides[i] \o "-width"] =
                   PropertyValue(getBorderWidth(Token(0), important).m["border-width"].value,
                                 important)
              /\ Entries["border-" \o Sides[i] \o "-style"] =
                   PropertyValue(getBorderStyle(Token(1), important).m["border-style"].value,
                                 important)
              /\ Entries["border-" \o Sides[i] \o "-color"] =
                   PropertyValue(getColor(Token(2)), important)

\* The canonical form of a padding (measurement) or margin (measurement or
\* auto) token.
BoxCanonical(tok) == IF op = "getMargin" THEN getMeasurementOrAuto(tok) ELSE getMeasurement(tok)

BoxPrefix == IF op = "getMargin" THEN "margin-" ELSE "padding-"

\* C2: padding and margin map the i-th token to the i-th side of top, right,
\* bottom, left: accepted iff the first token is present and valid and every
\* other present token is valid, and then there is exactly one entry per
\* present token, holding the canonical form of the token at that position.
C2_BoxTokensArePositional ==
  op \in {"getPadding", "getMargin"} =>
    /\ Returned
    /\ Accepted <=> /\ Present(0)
                    /\ \A i \in 0..3 : Present(i) => BoxCanonical(Token(i)) # Null
    /\ Accepted =>
         /\ DOMAIN Entries = {BoxPrefix \o Sides[i + 1] : i \in {j \in 0..3 : Present(j)}}
         /\ \A i \in 0..3 :
              Present(i) =>
                Entries[BoxPrefix \o Sides[i + 1]] =
                  PropertyValue(BoxCanonical(Token(i)), important)

\* { flex-grow, flex-shrink, flex-basis } with one important flag
FlexEntries(grow, shrink, basis) ==
  [n \in {"flex-grow", "flex-shrink", "flex-basis"} |->
     PropertyValue(Str(IF n = "flex-grow" THEN grow ELSE IF n = "flex-shrink" THEN shrink
                       ELSE basis),
                   important)]

\* A token valid under the flex-basis grammar, and its canonical form.
FlexBasisCanonical(tok) == getFlexBasis(tok, important).m["flex-basis"].value

\* What the flex shorthand is to emit for the value.
FlexExpected ==
  LET lowerValue == toLowerCase(trim(value))
  IN CASE lowerValue = <<"n","o","n","e">> -> FlexEntries(<<"0">>, <<"0">>, <<"a","u","t","o">>)
       [] lowerValue = <<"a","u","t","o">> -> FlexEntries(<<"1">>, <<"1">>, <<"a","u","t","o">>)
       [] lowerValue = <<"i","n","i","t","i","a","l">> -> FlexEntries(<<"0">>, <<"0">>, <<"a","u","t","o">>)
       [] lowerValue = <<"i","n","h","e","r","i","t">> -> FlexEntries(<<"i","n","h","e","r","i","t">>, <<"i","n","h","e","r","i","t">>, <<"i","n","h","e","r","i","t">>)
       [] OTHER ->
            IF /\ Present(0) /\ getInteger(Token(0)) # Null
               /\ Present(1) /\ getInteger(Token(1)) # Null
               /\ Present(2) /\ Truthy(FlexBasisCanonical(Token(2)))
              THEN FlexEntries(Token(0), Token(1), FlexBasisCanonical(Token(2)).s)
              ELSE NoProperties

\* C3: the flex shorthand completes normally on every value; none, auto,
\* initial and inherit emit flex-grow, flex-shrink and flex-basis as (0,0,auto),
\* (1,1,auto), (0,0,auto) and (inherit,inherit,inherit); any other value emits
\* the three entries when its three tokens are present and valid and nothing
\* otherwise.
C3_FlexEmitsThreeOrNothing ==
  op = "getFlex" => Returned /\ outcome.properties = FlexExpected

\* The tokens of the background shorthand once the color slot is settled: an
\* empty color slot when the first token is no color.
BackgroundTokens ==
  IF getColor(Tokens[1]) = Null THEN <<(<<>>)>> \o Tokens ELSE Tokens

BackgroundPresent(i) == i + 1 <= Len(BackgroundTokens) /\ BackgroundTokens[i + 1] # <<>>

BackgroundLonghands ==
  <<"background-color", "background-image", "background-repeat", "background-attachment",
    "background-position">>

\* The canonical string of the background token at position i (0-based), Null
\* when it is invalid under the grammar of its position.
BackgroundCanonical(i) ==
  LET tok == BackgroundTokens[i + 1]
      sub == CASE i = 2 -> getBackgroundRepeat(tok, important)
               [] i = 3 -> getBackgroundAttachment(tok, important)
               [] i = 4 -> getBackgroundPosition(tok, important)
  IN CASE i = 0 -> getColor(tok)
       [] i = 1 -> getURL(tok)
       [] OTHER -> IF sub = Null THEN Null ELSE sub.m[BackgroundLonghands[i + 1]].value

BackgroundExpected ==
  IF /\ \/ (BackgroundPresent(0) /\ BackgroundCanonical(0) # Null)
        \/ (BackgroundPresent(1) /\ BackgroundCanonical(1) # Null)
     /\ \A i \in 0..4 : BackgroundPresent(i) => BackgroundCanonical(i) # Null
    THEN [n \in {BackgroundLonghands[i + 1] : i \in {j \in 0..4 : BackgroundPresent(j)}} |->
            PropertyValue(BackgroundCanonical(
                            CHOOSE i \in 0..4 : BackgroundLonghands[i + 1] = n),
                          important)]
    ELSE NoProperties

\* C4: the background shorthand reads its tokens as color, image, repeat,
\* attachment, position, the color slot being absent when the first token is
\* no color; it succeeds iff the color or the image is present and every
\* present token is valid, and then emits exactly the longhands whose token is
\* present, each with that token's canonical string.
C4_BackgroundEmitsPresentLonghands ==
  op = "getBackground" => Returned /\ outcome.properties = BackgroundExpected

\* C5: every call of every parser completes normally, with a mapping of
\* entries or a rejection; none throws.
C5_NoCallThrows == outcome.kind # "throw"

\* The keyword-enum properties: the parser, its property and its allow-set.
KeywordEnums ==
  [getBorderStyle |->
     [name |-> "border-style",
      allow |-> {<<"n","o","n","e">>, <<"h","i","d","d","e","n">>, <<"d","o","t","t","e","d">>, <<"d","a","s","h","e","d">>, <<"s","o","l","i","d">>, <<"d","o","u","b","l","e">>,
                 <<"g","r","o","o","v","e">>, <<"r","i","d","g","e">>, <<"i","n","s","e","t">>, <<"o","u","t","s","e","t">>}],
   getBorderCollapse |->
     [name |-> "border-collapse",
      allow |-> {<<"s","e","p","a","r","a","t","e">>, <<"c","o","l","l","a","p","s","e">>, <<"i","n","i","t","i","a","l">>, <<"i","n","h","e","r","i","t">>}],
   getBackgroundRepeat |->
     [name |-> "background-repeat",
      allow |-> {<<"r","e","p","e","a","t">>, <<"r","e","p","e","a","t","-","x">>, <<"r","e","p","e","a","t","-","y">>, <<"n","o","-","r","e","p","e","a","t">>, <<"i","n","h","e","r","i","t">>}],
   getBackgroundAttachment |->
     [name |-> "background-attachment", allow |-> {<<"s","c","r","o","l","l">>, <<"f","i","x","e","d">>, <<"i","n","h","e","r","i","t">>}],
   getClear |->
     [name |-> "clear", allow |-> {<<"n","o","n","e">>, <<"l","e","f","t">>, <<"r","i","g","h","t">>, <<"b","o","t","h">>, <<"i","n","h","e","r","i","t">>}],
   getFloat |->
     [name |-> "float", allow |-> {<<"n","o","n","e">>, <<"l","e","f","t">>, <<"r","i","g","h","t">>, <<"i","n","h","e","r","i","t">>}]]

\* C6: a keyword-enum parser (border-style, border-collapse, background-repeat,
\* background-attachment, clear, float) returns exactly the one entry
\* {P: lower-cased value, important} iff the lower-cased value is in the
\* allow-set of P, and rejects with null otherwise.
C6_KeywordEnumAcceptsExactlyAllowSet ==
  op \in DOMAIN KeywordEnums =>
    IF toLowerCase(value) \in KeywordEnums[op].allow
      THEN /\ Accepted
           /\ DOMAIN Entries = {KeywordEnums[op].name}
           /\ Entries[KeywordEnums[op].name] = PropertyValue(Str(toLowerCase(value)), important)
      ELSE Rejected

\* An upper-case keyword of the allow-set was accepted, flagged important.
C6_Witness ==
  /\ op = "getBackgroundRepeat"
  /\ value = <<"N","O","-","R","E","P","E","A","T">>
  /\ important
  /\ Accepted

BorderSideOps ==
  [getBorderTop |-> "top", getBorderRight |-> "right", getBorderBottom |-> "bottom",
   getBorderLeft |-> "left"]

\* C7: a directional border shorthand returns exactly border-<side>-width,
\* border-<side>-style and border-<side>-color, holding the resolved width,
\* style and color, iff its three tokens are present and valid under
\* border-width, border-style and color; in every other case it rejects with
\* no entries.
C7_DirectionalBorderAllOrNothing ==
  op \in DOMAIN BorderSideOps =>
    LET side == BorderSideOps[op]
        width == getBorderWidth(Token(0), important)
        style == getBorderStyle(Token(1), important)
        color == getColor(Token(2))
    IN IF /\ Present(0) /\ width # Null
          /\ Present(1) /\ style # Null
          /\ Present(2) /\ color # Null
         THEN /\ Accepted
              /\ DOMAIN Entries = {"border-" \o side \o "-width", "border-" \o side \o "-style",
                                   "border-" \o side \o "-color"}
              /\ Entries["border-" \o side \o "-width"] =
                   PropertyValue(width.m["border-width"].value, important)
              /\ Entries["border-" \o side \o "-style"] =
                   PropertyValue(style.m["border-style"].value, important)
              /\ Entries["border-" \o side \o "-color"] = PropertyValue(color, important)
         ELSE Rejected

\* border-left with three valid tokens, the width and the style not in
\* canonical form, was accepted.
C7_Witness ==
  /\ op = "getBorderLeft"
  /\ value = <<"0"," ","S","o","l","i","d"," ","#","f","f","f">>
  /\ Accepted

Corners ==
  <<"border-top-left-radius", "border-top-right-radius", "border-bottom-right-radius",
    "border-bottom-left-radius">>

\* C8: border-radius maps up to four tokens to the top-left, top-right,
\* bottom-right and bottom-left corners: it is accepted iff the first token is
\* present and a valid measurement and every later present token is a valid
\* measurement; then it emits exactly one entry per present corner and none
\* for an absent one; a present invalid token rejects the whole shorthand.
C8_BorderRadiusPerPresentCorner ==
  op = "getBorderRadius" =>
    IF /\ Present(0)
       /\ \A i \in 0..3 : Present(i) => getMeasurement(Token(i)) # Null
      THEN /\ Accepted
           /\ DOMAIN Entries = {Corners[i + 1] : i \in {j \in 0..3 : Present(j)}}
      ELSE Rejected

\* Two corners given, two entries emitted.
C8_Witness ==
  /\ op = "getBorderRadius"
  /\ value = <<"1","p","x"," ","0">>
  /\ Accepted
  /\ DOMAIN Entries = {"border-top-left-radius", "border-top-right-radius"}

\* The measurement-or-keyword properties: parser, property, keyword set.
MeasureKeywordProperties ==
  [getBorderWidth |-> [name |-> "border-width", keywords |-> Range(BORDER_WIDTH)],
   getFontSize |-> [name |-> "font-size", keywords |-> Range(FONT_SIZE)],
   getFlexBasis |-> [name |-> "flex-basis", keywords |-> Range(FLEX_BASIS)]]

\* C9: border-width, font-size and flex-basis yield one entry with the
\* lower-cased keyword for a keyword of the property, else one entry with the
\* canonical string for a valid length (font-size: length or percentage), and
\* reject every other value: no entry carries a null or empty value.
C9_MeasureOrKeywordNeverNull ==
  op \in DOMAIN MeasureKeywordProperties =>
    LET P == MeasureKeywordProperties[op]
        lowerValue == toLowerCase(value)
        measure == IF op = "getFontSize" THEN OrElse(getLength(value), getPercentage(value))
                   ELSE getLength(value)
    IN IF lowerValue \in P.keywords
         THEN Accepted /\ Entries = One(P.name, PropertyValue(Str(lowerValue), important))
       ELSE IF measure # Null
         THEN Accepted /\ Entries = One(P.name, PropertyValue(measure, important))
       ELSE Rejected

\* '#' followed by hex digits only.
HexShaped(v) == Len(v) >= 1 /\ v[1] = "#" /\ \A i \in 2..Len(v) : v[i] \in HexDigits

\* C10: getColor accepts '#' followed by hex digits iff there are 3, 4, 6 or
\* 8 digits, and then returns the input unchanged.
C10_HexColorDigitCounts ==
  (op = "getColor" /\ HexShaped(value)) =>
    /\ outcome.result # Null <=> (Len(value) - 1) \in {3, 4, 6, 8}
    /\ outcome.result # Null => outcome.result = Str(value)

\* What lies between "url(" and the closing parenthesis that ends the value,
\* the white space after "url(" skipped.
UrlToken ==
  LET inner == SubSeq(value, Len(<<"u","r","l","(">>) + 1, Len(value) - 1)
      solid == {i \in DOMAIN inner : inner[i] \notin WhiteSpace}
  IN IF solid = {} THEN <<>>
     ELSE SubSeq(inner, CHOOSE i \in solid : \A j \in solid : i <= j, Len(inner))

UrlShaped ==
  /\ Len(value) >= Len(<<"u","r","l","(",")">>)
  /\ SubSeq(value, 1, Len(<<"u","r","l","(">>)) = <<"u","r","l","(">>
  /\ value[Len(value)] = ")"

Quotes == {"\"", "'"}

\* The character at position i of s is preceded by a backslash that escapes
\* it: an odd number of backslashes stands directly before it.
Escaped(s, i) ==
  LET run == {n \in 0..(i - 1) : \A k \in (i - n)..(i - 1) : s[k] = "\\"}
      longest == CHOOSE n \in run : \A m \in run : n >= m
  IN longest % 2 = 1

HasUnescaped(s) ==
  \E i \in DOMAIN s : s[i] \in {"(", ")", " ", "\t", "\n", "'", "\""} /\ ~Escaped(s, i)

\* C11: getURL returns none and inherit lower-cased; any other value must be
\* url(<token>); a token that starts with a quote must end with the same quote;
\* with the quotes stripped, a token holding one of ( ) space tab newline ' "
\* not escaped by a backslash is rejected; an accepted value is returned
\* unchanged.
C11_UrlTokenRules ==
  op = "getURL" =>
    LET lowerValue == toLowerCase(value)
        tok == UrlToken
        quoted == tok # <<>> /\ tok[1] \in Quotes
        closed == Len(tok) >= 2 /\ tok[Len(tok)] = tok[1]
        stripped == IF quoted THEN SubSeq(tok, 2, Len(tok) - 1) ELSE tok
    IN outcome.result =
         IF lowerValue \in {<<"n","o","n","e">>, <<"i","n","h","e","r","i","t">>} THEN Str(lowerValue)
         ELSE IF ~UrlShaped THEN Null
         ELSE IF quoted /\ ~closed THEN Null
         ELSE IF HasUnescaped(stripped) THEN Null
         ELSE Str(value)

PositionKeywords == {<<"t","o","p">>, <<"c","e","n","t","e","r">>, <<"b","o","t","t","o","m">>, <<"l","e","f","t">>, <<"r","i","g","h","t">>}

\* C12: background-position on its white-space-split tokens: one token is
\* accepted iff it is a valid length or, lower-cased, one of top, center,
\* bottom, left, right, inherit; two tokens iff both are lengths or percentages
\* (the result is the lower-cased value) or both are position keywords (the
\* result is '<first> <second>' lower-cased); a keyword beside a measurement,
\* the empty value and three or more tokens are rejected.
C12_BackgroundPositionTokens ==
  op = "getBackgroundPosition" =>
    LET toks == Split(WHITESPACES, value)
        lowerValue == toLowerCase(value)
        IsMeasure(t) == getLength(t) # Null \/ getPercentage(t) # Null
        IsKeyword(t) == toLowerCase(t) \in PositionKeywords
        result == Entries["background-position"]
    IN IF value = <<>> THEN Rejected
       ELSE IF Len(toks) = 1
         THEN IF getLength(value) # Null THEN Accepted
              ELSE IF lowerValue \in PositionKeywords \cup {<<"i","n","h","e","r","i","t">>}
                THEN Accepted /\ result = PropertyValue(Str(lowerValue), important)
              ELSE Rejected
       ELSE IF Len(toks) = 2
         THEN IF IsMeasure(toks[1]) /\ IsMeasure(toks[2])
                THEN Accepted /\ result = PropertyValue(Str(lowerValue), important)
              ELSE IF IsKeyword(toks[1]) /\ IsKeyword(toks[2])
                THEN /\ Accepted
                     /\ result = PropertyValue(Str(toLowerCase(toks[1]) \o <<" ">>
                                                     \o toLowerCase(toks[2])),
                                               important)
              ELSE Rejected
       ELSE Rejected

\* Two keywords in mixed case were accepted as 'top center'.
C12_Witness ==
  /\ op = "getBackgroundPosition"
  /\ value = <<"T","O","P"," ","C","e","n","t","e","r">>
  /\ Accepted
  /\ Entries["background-position"].value = Str(<<"t","o","p"," ","c","e","n","t","e","r">>)

\* The value recognizers, and the recognizer op applied to a string.
Recognizers ==
  {"getLength", "getPercentage", "getMeasurement", "getMeasurementOrAuto", "getInteger",
   "getColor", "getURL"}

Recognize(v) ==
  CASE op = "getLength" -> getLength(v)
    [] op = "getPercentage" -> getPercentage(v)
    [] op = "getMeasurement" -> getMeasurement(v)
    [] op = "getMeasurementOrAuto" -> getMeasurementOrAuto(v)
    [] op = "getInteger" -> getInteger(v)
    [] op = "getColor" -> getColor(v)
    [] op = "getURL" -> getURL(v)

\* C13: the value recognizers are idempotent: when getLength, getPercentage,
\* getMeasurement, getMeasurementOrAuto, getInteger, getColor or getURL accepts
\* a value with the canonical output c, the same recognizer accepts c and
\* returns exactly c.
C13_RecognizersAreIdempotent ==
  (op \in Recognizers /\ outcome.result # Null) =>
    Recognize(outcome.result.s) = outcome.result

\* getPercentage accepted '0' with an output that differs from its input.
C13_Witness ==
  /\ op = "getPercentage"
  /\ value = <<"0">>
  /\ outcome.result = Str(<<"0","%">>)

\* C14: every entry of a returned mapping carries the important flag passed
\* to the call, for important true and false alike, the entries that come from
\* nested grammar calls inside the shorthands included.
C14_ImportantIsCarried ==
  /\ Accepted => \A n \in DOMAIN Entries : Entries[n].important = important
  /\ Returned =>
       \A n \in DOMAIN outcome.properties : outcome.properties[n].important = important

\* A directional border flagged important returned its three entries, two of
\* them from the nested border-width and border-style parsers.
C14_Witness ==
  /\ op = "getBorderTop"
  /\ value = <<"0"," ","S","o","l","i","d"," ","#","f","f","f">>
  /\ important
  /\ Accepted
  /\ \A n \in DOMAIN Entries : Entries[n].important

====
